---- MODULE Spec2Model ----
(***************************************************************************)
(* allocate_teams (src/team_former/make_teams.py): one call of the team    *)
(* allocation pipeline, from argument binding over reading the roster,     *)
(* building the CP-SAT model and solving it, to decoding the solution.     *)
(*                                                                         *)
(* The CP-SAT solver is an external library.  Its Solve call is modelled   *)
(* by its contract: OPTIMAL with a minimal-objective solution of the       *)
(* posted constraints, FEASIBLE with any solution of them, INFEASIBLE when *)
(* there is none, UNKNOWN when the time budget ends first.  Of the solved  *)
(* variables the code reads only assign (solver.Value(assign[i, team])),   *)
(* so the state keeps assign and the other decision variables are          *)
(* quantified where the constraints that mention them are stated.          *)
(***************************************************************************)
EXTENDS Integers, Sequences, FiniteSets

(* ------------------------------ bounds --------------------------------- *)

\* Largest roster read from the sheet.
MaxStudents == 5

\* Values a row of the sheet can carry.  "X" stands for any gender label
\* other than "M" and "F"; wam is kept in tenths of a mark so that astype(int)
\* has something to truncate; 2500 (250.0) is a mark above 100.
GenderLabels == {"M", "F", "X"}
LabCodes == {1, 2}
SheetWams == {509, 2500}

\* Options a caller can pass.  min_team_size 0 is the zero divisor of line
\* 42; min_team_size 1 (one candidate slot per student) is left out.
MinTeamSizes == {0, 2, 3}
MaxTeamSizes == {2, 3}
\* wam_weight in ten-thousandths: 0.0006, 0.0015, 0.05 (the default).
WamWeights == {6, 15, 500}

(* -------------------------- program constants -------------------------- *)

\* NewIntVar(0, 100 * max_team_size, "wam_sum")
WamSumPerSeat == 100
\* NewIntVar(-500, 500, "wam_diff")
DiffBound == 500
\* NewIntVar(0, 250000, "squared_diff")
SquaredDiffBound == 250000
\* int(wam_weight * 1000)
WeightScale == 1000
\* final_teams = [-1] * num_students
Placeholder == -1

\* Keyword-only parameters of allocate_teams.
Parameters ==
    {"input_file", "sheet_name", "output_file", "wam_weight",
     "min_team_size", "max_team_size", "max_solve_time"}

\* The keyword sets a caller passes: the documented options, and the
\* documented options together with the two preference weights.
PlainCall ==
    {"input_file", "sheet_name", "output_file", "max_solve_time",
     "wam_weight", "min_team_size", "max_team_size"}
PreferenceCall == PlainCall \cup {"pos_pref_weight", "neg_pref_weight"}
KeywordSets == {PlainCall, PreferenceCall}

(* ------------------------------ rosters -------------------------------- *)

Rows == [gender : GenderLabels, wam : SheetWams, lab : LabCodes]

GenderRank(g) == IF g = "M" THEN 0 ELSE IF g = "F" THEN 1 ELSE 2

\* Every constraint of the model is a sum over all rows, so the order of the
\* rows is immaterial: one sheet per multiset of rows, its rows in rank order.
Rank(r) == (GenderRank(r.gender) * 10 + r.lab) * 10000 + r.wam

RECURSIVE SheetsOfLength(_)
SheetsOfLength(n) ==
    IF n = 0 THEN {<<>>}
    ELSE {Append(p[1], p[2]) :
            p \in {q \in SheetsOfLength(n - 1) \X Rows :
                     \/ Len(q[1]) = 0
                     \/ Rank(q[1][Len(q[1])]) <= Rank(q[2])}}

Sheets == UNION {SheetsOfLength(n) : n \in 0..MaxStudents}

(* ------------------------------- state --------------------------------- *)

VARIABLES
    pc,              \* where the call stands
    keywords,        \* the keyword arguments the caller passed
    min_team_size,   \* option
    max_team_size,   \* option
    wam_weight,      \* option, in ten-thousandths
    student_df,      \* the rows read from the sheet
    has_team_column, \* student_df["team"] has been set
    global_avg_wam,  \* sum(wams) // len(wams)
    max_teams,       \* num_students // min_team_size
    coefficient,     \* int(wam_weight * 1000), the factor in Minimize
    status,          \* what solver.Solve returned
    assign,          \* solver values: assign[i] is the set of slots t with
                     \* solver.Value(assign[i, t]) true
    final_teams,     \* the decoded team column
    team_count,      \* number of non-empty slots counted by the decoder
    output_written,  \* student_df.to_excel(output_file) has run
    printed,         \* the messages printed after the solve
    returned,        \* the value the call returned
    raised           \* the exception the call ended with

vars ==
    <<pc, keywords, min_team_size, max_team_size, wam_weight, student_df,
      has_team_column, global_avg_wam, max_teams, coefficient, status, assign,
      final_teams, team_count, output_written, printed, returned, raised>>

(* --------------------------- lines 35 to 42 ---------------------------- *)

num_students == Len(student_df)
Students == 1..num_students

\* astype(int) on a non-negative mark held in tenths: the fraction is dropped.
AsInt(tenths) == tenths \div 10

genders == [i \in Students |-> student_df[i].gender]
wams == [i \in Students |-> AsInt(student_df[i].wam)]
student_labs == [i \in Students |-> student_df[i].lab]
lab_ids == {student_labs[i] : i \in Students}

RECURSIVE SumOver(_, _)
SumOver(f, S) ==
    IF S = {} THEN 0
    ELSE LET x == CHOOSE y \in S : TRUE IN f[x] + SumOver(f, S \ {x})

\* Line 41: global_avg_wam = sum(wams) // len(wams), for at least one mark.
GlobalAverage(marks) == SumOver(marks, DOMAIN marks) \div Len(marks)

\* Line 42: max_teams = num_students // min_team_size, for a positive
\* min_team_size.
MaxTeamsTooFew(students, smallest) == students \div (smallest + 1)
MaxTeams(students, smallest) == students \div smallest

\* range(max_teams): empty when max_teams <= 0.
Slots == 0..(max_teams - 1)

(* ------------------- the constraints, lines 61 to 89 ------------------- *)

\* The students a valuation a of assign puts in slot team.
Members(a, team) == {i \in Students : team \in a[i]}

\* team_size = sum(assign[i, team] for i in range(num_students))
team_size(a, team) == Cardinality(Members(a, team))

\* Lines 61-62, for one student: sum(assign[i, team] for team) == 1, on the
\* set chosen of the slots whose assign[i, team] is true.
TotalityAtMostOne(chosen) == Cardinality(chosen) <= 1
Totality(chosen) == Cardinality(chosen) = 1

\* Lines 64-68, for one slot and one value of team_used[team].
SizeConstraintsOneWay(a, team, used) ==
    /\ team_size(a, team) <= max_team_size
    /\ used => team_size(a, team) >= min_team_size

SizeConstraints(a, team, used) ==
    /\ team_size(a, team) <= max_team_size
    /\ used => team_size(a, team) >= min_team_size
    /\ ~used => team_size(a, team) = 0

\* Lines 70-71, for one slot: AddExactlyOne(lab_team[team, lab] for lab in
\* lab_ids), on the set labels of the labs whose lab_team[team, lab] is true.
AtLeastOneLab(labels) == Cardinality(labels) >= 1
ExactlyOneLab(labels) == Cardinality(labels) = 1

\* Lines 73-77, for one student and one slot: assign[i, team] implies
\* lab_team[team, student_labs[i]].
LabLinkage(i, assigned, labels) == assigned => student_labs[i] \in labels

\* Lines 79-89, for one slot.
male_students(a, team) == {i \in Members(a, team) : genders[i] = "M"}
female_students(a, team) == {i \in Members(a, team) : genders[i] = "F"}

GenderConstraints(a, team) ==
    /\ (\E i \in Students : genders[i] = "M")
          => Cardinality(male_students(a, team)) # 1
    /\ (\E i \in Students : genders[i] = "F")
          => Cardinality(female_students(a, team)) # 1

(* -------------------- the objective, lines 92 to 108 ------------------- *)

\* The values lines 96-103 force on the auxiliary variables of one slot.
wam_sum(a, team) == SumOver(wams, Members(a, team))
size_var(a, team) == team_size(a, team)
diff(a, team) == wam_sum(a, team) - size_var(a, team) * global_avg_wam
squared_diff(a, team) == diff(a, team) * diff(a, team)

\* The domains NewIntVar gives them: a valuation whose forced values fall
\* outside is no solution of the model.
AuxiliaryDomains(a, team) ==
    /\ wam_sum(a, team) \in 0..(WamSumPerSeat * max_team_size)
    /\ size_var(a, team) \in 0..max_team_size
    /\ diff(a, team) \in (0 - DiffBound)..DiffBound
    /\ squared_diff(a, team) \in 0..SquaredDiffBound

\* int(wam_weight * 1000), on a weight held in ten-thousandths: int() drops
\* the fraction.  (For every weight 0.0000, 0.0001, ..., 1.0000 the float
\* product truncates to this same integer.)
Coefficient(weight) == (weight * WeightScale) \div 10000

\* The valuations of lab_team that lines 70-71 admit: lab_team[team] is the
\* set of labs whose lab_team[team, lab] is true.
LabTeams ==
    {lt \in [Slots -> SUBSET lab_ids] :
        \A team \in Slots : ExactlyOneLab(lt[team])}

\* The rows of assign that student i can take under lt: lines 61-62 and
\* 73-77.
RowsOf(i, lt) ==
    {chosen \in SUBSET Slots :
        /\ Totality(chosen)
        /\ \A team \in Slots : LabLinkage(i, team \in chosen, lt[team])}

\* The valuations of assign for students 1..n under lt, row by row.
RECURSIVE AssignUpTo(_, _)
AssignUpTo(n, lt) ==
    IF n = 0 THEN {<<>>}
    ELSE {Append(p[1], p[2]) : p \in AssignUpTo(n - 1, lt) \X RowsOf(n, lt)}

\* The constraints of lines 64-68 and 79-89 on one slot, with
\* team_used[team] taking whatever value satisfies them.
SizeAndGender(a, team) ==
    /\ \E used \in BOOLEAN : SizeConstraints(a, team, used)
    /\ GenderConstraints(a, team)

\* The valuations of assign that extend to a solution of the constraints of
\* lines 61-89 (totality, capacity, activation, lab, gender).
HardSolutions ==
    UNION {{a \in AssignUpTo(num_students, lt) :
               \A team \in Slots : SizeAndGender(a, team)} : lt \in LabTeams}

\* The valuations of assign that extend to a solution of the whole model:
\* the auxiliary variables of lines 94-103 must find their values in their
\* domains as well.
Solutions ==
    {a \in HardSolutions : \A team \in Slots : AuxiliaryDomains(a, team)}

\* The least team_used[team] can contribute to sum(team_used) under a.
UsedTerm(a, team) ==
    IF SizeConstraints(a, team, FALSE) THEN 0 ELSE 1

\* Lines 106-108: sum(team_used) + coefficient * sum(squared_deviation_terms)
Objective(a) ==
    SumOver([team \in Slots |-> UsedTerm(a, team)], Slots)
        + coefficient
            * SumOver([team \in Slots |-> squared_diff(a, team)], Slots)

\* The value Minimize reaches over a non-empty set of solutions.
LeastObjective(found) ==
    IF found = {} THEN 0
    ELSE CHOOSE m \in {Objective(a) : a \in found} :
             \A b \in found : m <= Objective(b)

(* ------------------------ decoding, lines 119-126 ---------------------- *)

\* for team in range(max_teams): for student in members:
\*     final_teams[student] = team
RECURSIVE DecodeFrom(_, _)
DecodeFrom(team, teams) ==
    IF team >= max_teams THEN teams
    ELSE DecodeFrom(team + 1,
                    [i \in Students |->
                        IF i \in Members(assign, team) THEN team
                        ELSE teams[i]])

CountTeams == Cardinality({team \in Slots : Members(assign, team) # {}})

(* ------------------------------ actions -------------------------------- *)

\* The defaults of the signature (wam_weight=0.05 in ten-thousandths).
DefaultMinTeamSize == 4
DefaultMaxTeamSize == 5
DefaultWamWeight == 500

Init ==
    /\ pc = "idle"
    /\ keywords = {}
    /\ min_team_size = DefaultMinTeamSize
    /\ max_team_size = DefaultMaxTeamSize
    /\ wam_weight = DefaultWamWeight
    /\ student_df = <<>>
    /\ has_team_column = FALSE
    /\ global_avg_wam = 0
    /\ max_teams = 0
    /\ coefficient = 0
    /\ status = "NONE"
    /\ assign = <<>>
    /\ final_teams = <<>>
    /\ team_count = 0
    /\ output_written = FALSE
    /\ printed = "nothing"
    /\ returned = "nothing"
    /\ raised = "nothing"

\* Lines 10-19: the call binds its keyword arguments; a keyword that is no
\* parameter ends the call with TypeError before the body runs.
Call ==
    /\ pc = "idle"
    /\ \E kw \in KeywordSets, mn \in MinTeamSizes, mx \in MaxTeamSizes,
          w \in WamWeights :
          /\ keywords' = kw
          /\ IF kw \subseteq Parameters
             THEN /\ pc' = "bound"
                  /\ min_team_size' = mn
                  /\ max_team_size' = mx
                  /\ wam_weight' = w
                  /\ raised' = raised
             ELSE /\ pc' = "raised"
                  /\ raised' = "TypeError"
                  /\ UNCHANGED <<min_team_size, max_team_size, wam_weight>>
    /\ UNCHANGED <<student_df, has_team_column, global_avg_wam, max_teams,
                   coefficient, status, assign, final_teams, team_count,
                   output_written, printed, returned>>

\* Lines 32-42: read the sheet and derive the sizes.  Both floor divisions
\* raise ZeroDivisionError on a zero divisor.
LoadRoster ==
    /\ pc = "bound"
    /\ \E sheet \in Sheets :
          /\ student_df' = sheet
          /\ IF Len(sheet) = 0
             THEN /\ pc' = "raised"
                  /\ raised' = "ZeroDivisionError"
                  /\ UNCHANGED <<global_avg_wam, max_teams>>
             ELSE /\ global_avg_wam' =
                        GlobalAverage([i \in 1..Len(sheet) |->
                                          AsInt(sheet[i].wam)])
                  /\ IF min_team_size = 0
                     THEN /\ pc' = "raised"
                          /\ raised' = "ZeroDivisionError"
                          /\ max_teams' = max_teams
                     ELSE /\ pc' = "loaded"
                          /\ max_teams' = MaxTeams(Len(sheet), min_team_size)
                          /\ raised' = raised
    /\ UNCHANGED <<keywords, min_team_size, max_team_size, wam_weight,
                   has_team_column, coefficient, status, assign, final_teams,
                   team_count, output_written, printed, returned>>

\* Lines 44-108: variables, constraints and objective are posted.  The
\* constraints are the operators above, read off the state; what the step
\* computes is the integer factor of the objective.
BuildModel ==
    /\ pc = "loaded"
    /\ pc' = "built"
    /\ coefficient' = Coefficient(wam_weight)
    /\ UNCHANGED <<keywords, min_team_size, max_team_size, wam_weight,
                   student_df, has_team_column, global_avg_wam, max_teams,
                   status, assign, final_teams, team_count, output_written,
                   printed, returned, raised>>

\* Lines 111-113: status = solver.Solve(model).
Solve ==
    /\ pc = "built"
    /\ pc' = "solved"
    /\ \E found \in {Solutions} :
          \/ \E least \in {LeastObjective(found)}, a \in found :
                /\ assign' = a
                /\ \/ status' = "FEASIBLE"
                   \/ /\ Objective(a) = least
                      /\ status' = "OPTIMAL"
          \/ /\ found = {}
             /\ status' = "INFEASIBLE"
             /\ assign' = assign
          \/ /\ status' = "UNKNOWN"
             /\ assign' = assign
    /\ UNCHANGED <<keywords, min_team_size, max_team_size, wam_weight,
                   student_df, has_team_column, global_avg_wam, max_teams,
                   coefficient, final_teams, team_count, output_written,
                   printed, returned, raised>>

Usable == {"OPTIMAL", "FEASIBLE"}

\* Lines 115-117.
ReportFailure ==
    /\ pc = "solved"
    /\ status \notin Usable
    /\ pc' = "done"
    /\ printed' = "No feasible solution found."
    /\ returned' = "None"
    /\ UNCHANGED <<keywords, min_team_size, max_team_size, wam_weight,
                   student_df, has_team_column, global_avg_wam, max_teams,
                   coefficient, status, assign, final_teams, team_count,
                   output_written, raised>>

\* Lines 119-132.
Decode ==
    /\ pc = "solved"
    /\ status \in Usable
    /\ pc' = "done"
    /\ final_teams' = DecodeFrom(0, [i \in Students |-> Placeholder])
    /\ team_count' = CountTeams
    /\ has_team_column' = TRUE
    /\ output_written' = TRUE
    /\ printed' = "teams formed"
    /\ returned' = "student_df"
    /\ UNCHANGED <<keywords, min_team_size, max_team_size, wam_weight,
                   student_df, global_avg_wam, max_teams, coefficient, status,
                   assign, raised>>

Next ==
    \/ Call
    \/ LoadRoster
    \/ BuildModel
    \/ Solve
    \/ ReportFailure
    \/ Decode

Spec == Init /\ [][Next]_vars

(* ------------------------------ properties ----------------------------- *)

\* The call returned the team table.
Succeeded == pc = "done" /\ status \in Usable

\* The call is over, by return or by exception.
CallEnded == pc \in {"done", "raised"}

TeamLabels == {final_teams[i] : i \in Students}
TeamMembers(label) == {i \in Students : final_teams[i] = label}
MembersLabelled(label, g) == {i \in TeamMembers(label) : genders[i] = g}

\* C1: after a successful solve the team column has one entry per student,
\* and each entry is the one slot of 0..num_students // min_team_size - 1
\* whose assign variable is true for the student; nobody keeps the
\* placeholder -1 and nobody sits in two slots.
C1_EveryStudentInExactlyOneSlot ==
    Succeeded =>
        /\ DOMAIN final_teams = Students
        /\ \A i \in Students :
              /\ final_teams[i] \in 0..((num_students \div min_team_size) - 1)
              /\ final_teams[i] # Placeholder
              /\ {team \in Slots : team \in assign[i]} = {final_teams[i]}

C1_Witness ==
    /\ Succeeded
    /\ num_students >= min_team_size
    /\ Cardinality(TeamLabels) >= 2

\* C2: after a successful solve every team label in the output has between
\* min_team_size and max_team_size members.
C2_TeamSizesWithinBounds ==
    Succeeded =>
        \A label \in TeamLabels :
            /\ Cardinality(TeamMembers(label)) >= min_team_size
            /\ Cardinality(TeamMembers(label)) <= max_team_size

C2_Witness ==
    /\ Succeeded
    /\ min_team_size < max_team_size
    /\ \E label \in TeamLabels :
          Cardinality(TeamMembers(label)) = min_team_size
    /\ \E label \in TeamLabels :
          Cardinality(TeamMembers(label)) = max_team_size

\* C3: after a successful solve two students with the same team label have
\* the same lab code.
C3_TeamSharesOneLab ==
    Succeeded =>
        \A i, j \in Students :
            final_teams[i] = final_teams[j] => student_labs[i] = student_labs[j]

C3_Witness ==
    /\ Succeeded
    /\ \E i, j \in Students :
          /\ i # j
          /\ final_teams[i] = final_teams[j]
    /\ \E i, j \in Students :
          /\ final_teams[i] # final_teams[j]
          /\ student_labs[i] # student_labs[j]

\* C4: after a successful solve no team has exactly one member of a gender
\* label that occurs in the roster, whatever the label.
C4_NoLoneMemberOfAnyLabel ==
    Succeeded =>
        \A label \in TeamLabels :
            \A g \in {genders[i] : i \in Students} :
                Cardinality(MembersLabelled(label, g)) # 1

\* C5: a call that got a solver status other than OPTIMAL or FEASIBLE, and
\* every call on a roster smaller than min_team_size, ends by printing
\* 'No feasible solution found.' and returning None, with no exception, no
\* output file and no team column.
C5_FailureIsExplicit ==
    (/\ CallEnded
     /\ keywords \subseteq Parameters
     /\ \/ status \in {"INFEASIBLE", "UNKNOWN"}
        \/ min_team_size > num_students)
        => /\ raised = "nothing"
           /\ printed = "No feasible solution found."
           /\ returned = "None"
           /\ ~output_written
           /\ ~has_team_column

\* What section 4.1 of the design asks of the options and the roster.
ValidInput ==
    /\ min_team_size >= 1
    /\ max_team_size >= min_team_size
    /\ num_students >= min_team_size
    /\ \A i \in Students : genders[i] \in {"M", "F"}

\* C6: no call with a size-bound misconfiguration or a gender label outside
\* the closed set gets as far as building the model or calling the solver.
C6_InvalidInputNeverReachesModel ==
    pc \in {"built", "solved"} => ValidInput

\* C7: a call that passes pos_pref_weight and neg_pref_weight completes and
\* returns the team table.  (The claim goes on to say which preference pairs
\* the table honours; a call that returns no table honours none.)
C7_PreferenceCallReturnsTable ==
    (CallEnded /\ keywords = PreferenceCall)
        => /\ raised = "nothing"
           /\ returned = "student_df"

\* num_students is a multiple of no size in min_team_size..max_team_size.
NoSizeDivides ==
    \A size \in min_team_size..max_team_size : num_students % size # 0

\* A group of students that can form a team: lines 64-89 read without slots.
ValidGroup(G) ==
    /\ Cardinality(G) >= min_team_size
    /\ Cardinality(G) <= max_team_size
    /\ \A i, j \in G : student_labs[i] = student_labs[j]
    /\ Cardinality({i \in G : genders[i] = "M"}) # 1
    /\ Cardinality({i \in G : genders[i] = "F"}) # 1

\* The ways to split the students S into valid groups.
RECURSIVE GroupingsOf(_)
GroupingsOf(S) ==
    IF S = {} THEN {{}}
    ELSE LET x == CHOOSE y \in S : TRUE
         IN UNION {{P \cup {G \cup {x}} : P \in GroupingsOf(S \ (G \cup {x}))} :
                      G \in {H \in SUBSET (S \ {x}) : ValidGroup(H \cup {x})}}

NonMultipleRoster ==
    /\ pc = "built"
    /\ min_team_size >= 1
    /\ min_team_size <= max_team_size
    /\ num_students >= min_team_size
    /\ NoSizeDivides

C9_DomainsExcludeNoHardSolution ==
    pc = "built" =>
        \A a \in HardSolutions : \A team \in Slots : AuxiliaryDomains(a, team)

\* wam_weight * 1000 rounded to the nearest integer.
Rounded(weight) == (weight * WeightScale + 5000) \div 10000

\* C10: the factor of the squared-deviation sum in the objective is
\* wam_weight * 1000 rounded to the nearest integer (1 for 0.0006, 2 for
\* 0.0015).
C10_CoefficientIsRounded ==
    pc = "built" => coefficient = Rounded(wam_weight)

TypeOK == pc \in {"idle", "bound", "loaded", "built", "solved", "done", "raised"}

====
